---- MODULE Spec2Model ----
(***************************************************************************)
(* A model of picfit's HTTP handlers (server/http_handlers.go): the        *)
(* secure-path step, the display / get / redirect handlers and their       *)
(* secured variants, upload, delete, info, exist and the internal-error    *)
(* probe.  A request is a record; each handler is cut into steps at its    *)
(* blocking calls to the processor (the Facade).                           *)
(*                                                                         *)
(* Strings that the code slices or decrypts (paths, tokens, keys) are      *)
(* sequences of byte values; other strings are TLA+ strings.               *)
(***************************************************************************)
EXTENDS Integers, Sequences, FiniteSets, TLC

VARIABLES req, SecurePathKey

vars == <<req, SecurePathKey>>

(***************************************************************************)
(* Bounds and program constants                                            *)
(***************************************************************************)

\* How many requests are in flight in the general specification.
NumRequests == 1

\* aes.BlockSize, the length of the key segment taken by securePath.
BlockSize == 16

StatusOK == 200
StatusMovedPermanently == 301
StatusBadRequest == 400
StatusNotFound == 404

(***************************************************************************)
(* Byte strings                                                            *)
(***************************************************************************)

EmptyString == << >>

\* "/a/b.jpg"
PathA == <<47, 97, 47, 98, 46, 106, 112, 103>>

\* "/img/abcdefg.png": exactly one cipher block long, so that its token has
\* two blocks and the chaining is exercised.
PathB == <<47, 105, 109, 103, 47, 97, 98, 99, 100, 101, 102, 103, 46, 112, 110, 103>>

Paths == {PathA, PathB}

\* Go's s[lo:hi] on a string: a run-time panic unless 0 <= lo <= hi <= len(s).
SliceInRange(s, lo, hi) == 0 <= lo /\ lo <= hi /\ hi <= Len(s)

\* s[lo:hi] with Go's 0-based, half-open bounds (defined when SliceInRange).
Slice(s, lo, hi) == [i \in 1..(hi - lo) |-> s[lo + i]]

(***************************************************************************)
(* The secure-path codec (crypt/aes256cbc): a block cipher in chained-     *)
(* block mode with PKCS#7 padding.  The block transformation is modelled   *)
(* by byte-wise addition of the key modulo 256, and the chaining by        *)
(* addition of the previous cipher block.                                  *)
(***************************************************************************)

DecodeErrors == {"MalformedInput", "PaddingInvalid", "KeyMismatch"}

\* PKCS#7: n bytes of value n, n in 1..BlockSize, up to a whole block.
PadLen(plain) == BlockSize - (Len(plain) % BlockSize)

Pad(plain) == plain \o [i \in 1..PadLen(plain) |-> PadLen(plain)]

\* Position i's key byte: the key segment is reused for every block.
KeyByte(key, i) == key[((i - 1) % BlockSize) + 1]

\* The block before position i: the IV for the first block, else the
\* cipher text one block back.
Chain(cipher, iv, i) == IF i <= BlockSize THEN iv[i] ELSE cipher[i - BlockSize]

RECURSIVE Encrypt(_, _, _, _)
\* The cipher text of padded[Len(done)+1 ..], given the cipher text so far.
Encrypt(padded, key, iv, done) ==
    IF Len(done) = Len(padded) THEN done
    ELSE LET i == Len(done) + 1
             c == (padded[i] + Chain(done, iv, i) + KeyByte(key, i)) % 256
         IN  Encrypt(padded, key, iv, Append(done, c))

\* The token of a path under a key and an IV of one block each.
Encode(path, key, iv) == Encrypt(Pad(path), key, iv, EmptyString)

Decrypt(cipher, key, iv) ==
    [i \in 1..Len(cipher) |->
        (cipher[i] + 512 - Chain(cipher, iv, i) - KeyByte(key, i)) % 256]

PaddingOK(plain) ==
    LET n == plain[Len(plain)]
    IN  /\ n \in 1..BlockSize
        /\ n <= Len(plain)
        /\ \A i \in (Len(plain) - n + 1)..Len(plain) : plain[i] = n

\* aes256cbc.Decode(encodedPath, key, iv): the path, or a DecodeError.
Decode(encodedPath, key, iv) ==
    IF Len(key) # BlockSize \/ Len(iv) # BlockSize
    THEN [err |-> "KeyMismatch", path |-> EmptyString]
    ELSE IF Len(encodedPath) = 0 \/ Len(encodedPath) % BlockSize # 0
    THEN [err |-> "MalformedInput", path |-> EmptyString]
    ELSE LET plain == Decrypt(encodedPath, key, iv)
         IN  IF ~PaddingOK(plain)
             THEN [err |-> "PaddingInvalid", path |-> EmptyString]
             ELSE [err |-> "nil",
                   path |-> SubSeq(plain, 1, Len(plain) - plain[Len(plain)])]

(***************************************************************************)
(* Key material                                                            *)
(***************************************************************************)

\* Two secrets of two blocks, differing in every byte.
KeyOne == [i \in 1..(2 * BlockSize) |-> (7 * i + 3) % 256]

KeyTwo == [i \in 1..(2 * BlockSize) |-> (11 * i + 5) % 256]

\* A secret of three blocks: its IV segment is two blocks long.
KeyLong == [i \in 1..(3 * BlockSize) |-> (5 * i + 1) % 256]

\* No secret configured.
KeyUnset == EmptyString

\* The secrets a token can be issued under.
IssuingKeys == {KeyOne, KeyTwo}

\* The secrets the process may hold.
KeyMaterials == {KeyOne, KeyLong, KeyUnset}

\* The token of path under the whole secret k, split as securePath splits it.
Token(path, k) ==
    Encode(path, Slice(k, 0, BlockSize), Slice(k, BlockSize, Len(k)))

\* A token whose last byte was changed.
Tamper(token) ==
    [token EXCEPT ![Len(token)] = (token[Len(token)] + 1) % 256]

\* A token cut one byte short of a block.
Truncate(token) == SubSeq(token, 1, Len(token) - 1)

\* What the "path" entry of a secured request may hold.
Tokens ==
    {Token(p, k) : p \in Paths, k \in IssuingKeys}
        \cup {Tamper(Token(PathA, KeyOne)), Truncate(Token(PathA, KeyOne)),
              EmptyString}

(***************************************************************************)
(* Response headers (gin.Context.Header over net/http.Header)              *)
(***************************************************************************)

\* textproto.CanonicalMIMEHeaderKey on the header names of the model.
CanonicalKey(k) ==
    CASE k = "cache-control" -> "Cache-Control"
      [] k = "x-picfit" -> "X-Picfit"
      [] k = "content-type" -> "Content-Type"
      [] OTHER -> k

\* A header map with no entry.
NoHeaders == [k \in {} |-> ""]

\* http.Header.Set: the entry under the canonical key is replaced.
HeaderSet(h, k, v) ==
    [n \in DOMAIN h \cup {CanonicalKey(k)} |->
        IF n = CanonicalKey(k) THEN v ELSE h[n]]

\* http.Header.Del: the entry under the canonical key is removed.
HeaderDel(h, k) == [n \in DOMAIN h \ {CanonicalKey(k)} |-> h[n]]

\* c.Header(key, value): an empty value deletes the header.
Header(h, k, v) == IF v = "" THEN HeaderDel(h, k) ELSE HeaderSet(h, k, v)

\* The orders in which `range m` may visit the keys of a Go map.
RangeOrders(m) ==
    {o \in [1..Cardinality(DOMAIN m) -> DOMAIN m] :
        \A i, j \in DOMAIN o : i # j => o[i] # o[j]}

RECURSIVE CopyHeaders(_, _, _, _)
\* for k, v := range m { c.Header(k, v) }, visiting m's keys in order o
\* from position i on.
CopyHeaders(h, m, o, i) ==
    IF i > Len(o) THEN h
    ELSE CopyHeaders(Header(h, o[i], m[o[i]]), m, o, i + 1)

\* render.writeContentType: the content type is set unless one is there.
WriteContentType(h, ctype) ==
    IF "Content-Type" \in DOMAIN h THEN h ELSE HeaderSet(h, "Content-Type", ctype)

(***************************************************************************)
(* Files and sizes (image.ImageFile, as the handlers use it)               *)
(***************************************************************************)

NoFile ==
    [Filepath |-> EmptyString, Key |-> "", Headers |-> NoHeaders,
     ContentType |-> "", Storage |-> ""]

\* file.Filename(), file.Path(), file.Content(): values derived from the
\* file's path, kept symbolic.
Filename(file) == <<"filename", file.Filepath>>

Path(file) == <<"path", file.Filepath>>

Content(file) == <<"content", file.Filepath>>

\* file.URL(): the storage's base URL joined with the path.
URL(file) ==
    CASE file.Filepath = PathA -> "http://" \o file.Storage \o "/a/b.jpg"
      [] file.Filepath = PathB -> "http://" \o file.Storage \o "/img/abcdefg.png"
      [] OTHER -> "http://" \o file.Storage

NoSizes == [Width |-> 0, Height |-> 0, Bytes |-> 0]

(***************************************************************************)
(* Responses (gin.Context's writers)                                       *)
(***************************************************************************)

NoObject ==
    [names |-> {}, filename |-> <<"", EmptyString>>, path |-> <<"", EmptyString>>,
     url |-> "", key |-> "", sizes |-> NoSizes]

\* A body: nothing, a file's bytes, a JSON object or a text.
NoBody ==
    [kind |-> "none", text |-> "", content |-> <<"", EmptyString>>,
     object |-> NoObject]

\* Nothing written yet: status 0 stands for no status line.
NoResponse ==
    [status |-> 0, headers |-> NoHeaders, body |-> NoBody]

NoStatus == NoResponse.status

\* c.Data(code, contentType, data)
Data(resp, code, ctype, data) ==
    [status |-> code,
     headers |-> WriteContentType(resp.headers, ctype),
     body |-> [NoBody EXCEPT !.kind = "data", !.content = data]]

\* c.JSON(code, obj)
JSON(resp, code, obj) ==
    [status |-> code,
     headers |-> WriteContentType(resp.headers, "application/json"),
     body |-> [NoBody EXCEPT !.kind = "json", !.object = obj]]

\* c.String(code, text)
String(resp, code, text) ==
    [status |-> code,
     headers |-> WriteContentType(resp.headers, "text/plain"),
     body |-> [NoBody EXCEPT !.kind = "string", !.text = text]]

\* c.Redirect(code, location)
Redirect(resp, code, location) ==
    [status |-> code,
     headers |-> HeaderSet(resp.headers, "Location", location),
     body |-> NoBody]

\* c.AbortWithStatus(code): the status line is written, with no body.
AbortWithStatus(resp, code) == [resp EXCEPT !.status = code]

\* A response that reports success: a 200 (bytes, JSON metadata or the
\* "Ok" text) or the permanent redirect.
IsSuccessResponse(resp) ==
    resp.status \in {StatusOK, StatusMovedPermanently}

(***************************************************************************)
(* The processor (the Facade), as the handlers see it                      *)
(***************************************************************************)

\* The errors the processor reports: failure.ErrFileNotExists and
\* failure.ErrUnprocessable.
DomainErrors == {"ErrFileNotExists", "ErrUnprocessable"}

\* The error of a call whose context was cancelled or timed out.
Canceled == "context.Canceled"

\* The header maps a file may declare.
HeaderMaps ==
    { NoHeaders,
      [k \in {"Cache-Control", "X-Picfit"} |->
          IF k = "X-Picfit" THEN "v1" ELSE "max-age=60"],
      [k \in {"cache-control", "X-Picfit", "Content-Type"} |->
          CASE k = "cache-control" -> "no-store"
            [] k = "X-Picfit" -> ""
            [] OTHER -> "text/plain"],
      [k \in {"x-picfit", "X-Picfit"} |->
          IF k = "X-Picfit" THEN "v1" ELSE "v2"] }

\* The files the processor may return for a path.
FilesFor(path) ==
    {[Filepath |-> path, Key |-> "key", Headers |-> h,
      ContentType |-> "image/png", Storage |-> "dst"] : h \in HeaderMaps}

SizesOf(file) ==
    [Width |-> 640, Height |-> 480, Bytes |-> Len(file.Filepath) * 1000]

\* The options of a call that takes none.
NoOptions == [async |-> FALSE, load |-> FALSE]

\* One call to the processor: the operation, its path, file and key
\* arguments (those it takes), its options, and whether it was handed the
\* request's context.
Call(op, path, file, key, opts, ctx) ==
    [op |-> op, path |-> path, file |-> file, key |-> key, opts |-> opts,
     ctx |-> ctx]

(***************************************************************************)
(* Requests                                                                *)
(***************************************************************************)

SecuredRoutes == {"secureDisplay", "secureGet", "secureRedirect"}

UnsecuredRoutes == {"display", "get", "redirect"}

DisplayRoutes == {"display", "secureDisplay"}

GetRoutes == {"get", "secureGet"}

RedirectRoutes == {"redirect", "secureRedirect"}

\* c.Get("key"): no entry, a string, or a value of another type.
NoKey == [exists |-> FALSE, isString |-> FALSE, value |-> ""]

StringKey == [exists |-> TRUE, isString |-> TRUE, value |-> "child-key"]

OtherKey == [exists |-> TRUE, isString |-> FALSE, value |-> ""]

\* A request as it reaches its handler.  bag says what c.MustGet
\* ("parameters") finds: no entry ("absent"), a map without a "path" entry
\* ("nopath"), a map whose "path" is no string ("notstring"), or a map
\* whose "path" is the string `path` ("ok").  param is c.Param
\* ("parameters"), query is c.Query("path"), payload says whether the
\* multipart body binds.  cancel says where the request was when the
\* transport signalled a cancellation: "none" while it has not, else the
\* call the handler was blocked in, or "idle" when it was in none.  answer
\* is the error of the processor's last answer ("nil" for none), file the
\* file the handler holds, order the order in which display's range over
\* the file's headers ran.  trace lists, in the order they were made, the
\* calls to the processor and to its logger.  returned is the file of
\* ProcessContext's answer and storage the storage of
\* GetStorageByFileExist's, as the processor gave them.
Request(route, bag, path, param, key, query, payload) ==
    [route |-> route, bag |-> bag, path |-> path, param |-> param,
     key |-> key, query |-> query, payload |-> payload,
     state |-> "Unauthenticated",
     secured |-> [set |-> FALSE, path |-> EmptyString],
     calls |-> << >>, pending |-> "none",
     answer |-> "none", file |-> NoFile, order |-> << >>,
     resp |-> NoResponse, err |-> "none",
     returned |-> NoFile, storage |-> "none",
     log |-> << >>, trace |-> << >>, cancel |-> "none"]

Plain(route) ==
    Request(route, "absent", EmptyString, EmptyString, NoKey, EmptyString, "none")

UnsecuredRequests ==
    {[Plain(rt) EXCEPT !.bag = "ok", !.path = p] :
        rt \in UnsecuredRoutes, p \in Paths}

SecuredRequests ==
    {[Plain(rt) EXCEPT !.bag = "ok", !.path = t] :
        rt \in SecuredRoutes, t \in Tokens}
    \cup {[Plain(rt) EXCEPT !.bag = b] :
        rt \in SecuredRoutes, b \in {"absent", "nopath", "notstring"}}

UploadRequests ==
    {[Plain("upload") EXCEPT !.payload = b] : b \in {"valid", "invalid"}}

DeleteRequests ==
    {[Plain("delete") EXCEPT !.param = p, !.key = k] :
        p \in Paths \cup {EmptyString}, k \in {NoKey, StringKey, OtherKey}}

QueryRequests ==
    {[Plain(rt) EXCEPT !.query = p] :
        rt \in {"info", "exist"}, p \in Paths \cup {EmptyString}}

Requests ==
    UnsecuredRequests \cup SecuredRequests \cup UploadRequests
        \cup DeleteRequests \cup QueryRequests \cup {Plain("internalError")}

Terminal == {"Responded", "Failed", "Panicked"}

\* The path the processor reads from the request's context: the one
\* SetSecuredOptions installed, else the request's own "path" parameter.
ContextPath(q) == IF q.secured.set THEN q.secured.path ELSE q.path

\* return err
Return(q, err) ==
    [q EXCEPT !.state = "Failed", !.err = err, !.pending = "none"]

\* return nil after a success response was written
Respond(q, resp) ==
    [q EXCEPT !.state = "Responded", !.err = "nil", !.pending = "none",
              !.resp = resp]

\* A panic leaves the handler: a failed type assertion, a slice out of
\* range, or the deliberate one.
Panic(q) == [q EXCEPT !.state = "Panicked", !.err = "panic", !.pending = "none"]

\* The handler blocks in a call to the processor.
Dispatch(q, call) ==
    [q EXCEPT !.state = "Dispatched", !.pending = call.op,
              !.calls = Append(@, call), !.trace = Append(@, call.op)]

\* The call the handler is blocked in.
PendingCall(q) == q.calls[Len(q.calls)]

(***************************************************************************)
(* What the processor may answer                                           *)
(***************************************************************************)

\* ProcessContext(c, opts...): a file for the context's path, or an error;
\* a call that holds a cancelled context ends with the cancellation error.
ProcessContextOutcomes(q) ==
    IF PendingCall(q).ctx /\ q.cancel # "none"
    THEN {[err |-> Canceled, file |-> NoFile]}
    ELSE {[err |-> e, file |-> NoFile] : e \in DomainErrors}
            \cup {[err |-> "nil", file |-> f] : f \in FilesFor(PendingCall(q).path)}

\* GetSizes(file): the sizes of the file, or an error.
GetSizesOutcomes(q) ==
    {[err |-> e, sizes |-> NoSizes] : e \in DomainErrors}
        \cup {[err |-> "nil", sizes |-> SizesOf(PendingCall(q).file)]}

\* GetStorageByFileExist(path): a storage, or nil.
StorageOutcomes == {"nil", "src"}

\* Upload(payload): the stored file, or an error.
UploadOutcomes ==
    {[err |-> e, file |-> NoFile] : e \in DomainErrors}
        \cup {[err |-> "nil", file |-> f] : f \in FilesFor(PathA)}

\* Delete(path), DeleteChild(key): nil, or an error.
DeleteOutcomes == {"nil"} \cup DomainErrors

(***************************************************************************)
(* securePath                                                              *)
(***************************************************************************)

\* decodeFailed without its return: the status is written and the handler
\* goes on.
decodeFailedGoesOn(q, err) ==
    [q EXCEPT !.state = "Authenticated",
              !.resp = AbortWithStatus(@, StatusNotFound)]

\* decodeFailed with a status that tells a malformed token from the rest.
decodeFailedTelling(q, err) ==
    [Return(q, err) EXCEPT
        !.resp = AbortWithStatus(@, IF err = "MalformedInput"
                                    THEN StatusBadRequest
                                    ELSE StatusNotFound)]

\* if err != nil { c.AbortWithStatus(http.StatusNotFound); return err }
decodeFailed(q, err) ==
    [Return(q, err) EXCEPT !.resp = AbortWithStatus(@, StatusNotFound)]

\* h.processor.Logger.Info("Path decoded", logger.String("path", path))
logInfo(q, path) ==
    [q EXCEPT !.log = Append(@, path), !.trace = Append(@, "Logger.Info")]

\* h.processor.SetSecuredOptions(c, path): the path is installed on the
\* request's context.
setSecuredOptions(q, path) ==
    [q EXCEPT !.secured = [set |-> TRUE, path |-> path],
              !.calls = Append(@, Call("SetSecuredOptions", path, NoFile, "",
                                       NoOptions, TRUE)),
              !.trace = Append(@, "SetSecuredOptions")]

\* decodeSucceeded with the token, not the decoded path, installed.
decodeSucceededRaw(q, path) ==
    [setSecuredOptions(logInfo(q, path), q.path) EXCEPT
        !.state = "Authenticated"]

\* decodeSucceeded with the log entry written after the path is installed.
decodeSucceededLogsLast(q, path) ==
    [logInfo(setSecuredOptions(q, path), path) EXCEPT
        !.state = "Authenticated"]

\* Logger.Info("Path decoded", path); SetSecuredOptions(c, path); return nil
decodeSucceeded(q, path) ==
    [setSecuredOptions(logInfo(q, path), path) EXCEPT
        !.state = "Authenticated"]

\* The two type assertions, the two slices of the secret, Decode, and the
\* branch on its error.
securePath(q, secret) ==
    IF q.bag # "ok" THEN Panic(q)
    ELSE IF ~SliceInRange(secret, 0, BlockSize)
            \/ ~SliceInRange(secret, BlockSize, Len(secret))
    THEN Panic(q)
    ELSE LET d == Decode(q.path,
                         Slice(secret, 0, BlockSize),
                         Slice(secret, BlockSize, Len(secret)))
         IN  IF d.err # "nil" THEN decodeFailed(q, d.err)
             ELSE decodeSucceeded(q, d.path)

\* A secured handler runs the handler it wraps only after securePath
\* returned nil; an unsecured one runs at once.
Ready(q) ==
    q.state = IF q.route \in SecuredRoutes THEN "Authenticated"
              ELSE "Unauthenticated"

(***************************************************************************)
(* display, get, redirect                                                  *)
(***************************************************************************)

\* picfit.WithAsync(true), picfit.WithLoad(true)
displayOptions == [async |-> TRUE, load |-> TRUE]

\* getOptions with display's deferred execution.
getOptionsAsync == [async |-> TRUE, load |-> FALSE]

\* picfit.WithAsync(false), picfit.WithLoad(false)
getOptions == [async |-> FALSE, load |-> FALSE]

redirectOptions == [async |-> FALSE, load |-> FALSE]

\* h.processor.ProcessContext(c, opts...)
processContext(q, opts) ==
    Dispatch(q, Call("ProcessContext", ContextPath(q), NoFile, "", opts, TRUE))

\* displayHeaders with Cache-Control set before the file's headers are
\* copied.
displayHeadersCacheFirst(h, file, order) ==
    CopyHeaders(Header(h, "Cache-Control", "must-revalidate"),
                file.Headers, order, 1)

\* displayHeaders without the copy of the file's headers.
displayHeadersCacheOnly(h, file, order) ==
    Header(h, "Cache-Control", "must-revalidate")

\* The headers of display's response: the file's, then Cache-Control.
displayHeaders(h, file, order) ==
    Header(CopyHeaders(h, file.Headers, order, 1),
           "Cache-Control", "must-revalidate")

\* display after ProcessContext returned (file, err); order is the order
\* in which the range over file.Headers runs.
displayReturn(q, out, order) ==
    IF out.err # "nil" THEN Return(q, out.err)
    ELSE [Respond(q, Data([q.resp EXCEPT
                              !.headers = displayHeaders(@, out.file, order)],
                          StatusOK, out.file.ContentType, Content(out.file)))
            EXCEPT !.file = out.file, !.order = order]

\* h.processor.GetSizes(file)
getSizes(q, file) ==
    [Dispatch(q, Call("GetSizes", EmptyString, file, "", NoOptions, FALSE))
        EXCEPT !.file = file]

\* getProcessed without the return on ProcessContext's error.
getProcessedAnyway(q, out) == getSizes(q, out.file)

\* get after ProcessContext returned (file, err)
getProcessed(q, out) ==
    IF out.err # "nil" THEN Return(q, out.err) ELSE getSizes(q, out.file)

\* get after GetSizes returned (imageSizes, err)
getSized(q, out) ==
    IF out.err # "nil" THEN Return(q, out.err)
    ELSE Respond(q, JSON(q.resp, StatusOK,
            [names |-> {"filename", "path", "url", "key", "width", "height",
                        "bytes"},
             filename |-> Filename(q.file), path |-> Path(q.file),
             url |-> URL(q.file), key |-> q.file.Key, sizes |-> out.sizes]))

\* redirectReturn with the redirect written before the error is looked at.
redirectReturnWritesFirst(q, out) ==
    IF out.err # "nil"
    THEN [Return(q, out.err) EXCEPT
            !.resp = Redirect(@, StatusMovedPermanently, URL(out.file))]
    ELSE [Respond(q, Redirect(q.resp, StatusMovedPermanently, URL(out.file)))
            EXCEPT !.file = out.file]

\* redirect after ProcessContext returned (file, err)
redirectReturn(q, out) ==
    IF out.err # "nil" THEN Return(q, out.err)
    ELSE [Respond(q, Redirect(q.resp, StatusMovedPermanently, URL(out.file)))
            EXCEPT !.file = out.file]

(***************************************************************************)
(* upload, delete                                                          *)
(***************************************************************************)

\* upload without the return on a payload that does not bind.
uploadUnparsed(q) ==
    Dispatch(q, Call("Upload", EmptyString, NoFile, "", NoOptions, FALSE))

\* binding.Bind, then h.processor.Upload(multipartPayload)
upload(q) ==
    IF q.payload # "valid" THEN Return(q, "binding.Errors")
    ELSE Dispatch(q, Call("Upload", EmptyString, NoFile, "", NoOptions, FALSE))

\* upload after Upload returned (file, err)
uploadReturn(q, out) ==
    IF out.err # "nil" THEN Return(q, out.err)
    ELSE [Respond(q, JSON(q.resp, StatusOK,
            [names |-> {"filename", "path", "url"},
             filename |-> <<"filepath", out.file.Filepath>>,
             path |-> Path(out.file), url |-> URL(out.file), key |-> "",
             sizes |-> NoSizes]))
            EXCEPT !.file = out.file]

\* deletePath without the slice: the separator is kept.
deletePathWhole(path) == path

\* path[1:]
deletePath(path) == Slice(path, 1, Len(path))

\* delete without its first check.
deleteUnchecked(q) ==
    IF ~q.key.exists
    THEN IF ~SliceInRange(q.param, 1, Len(q.param)) THEN Panic(q)
         ELSE Dispatch(q, Call("Delete", deletePath(q.param), NoFile, "",
                               NoOptions, FALSE))
    ELSE IF ~q.key.isString THEN Panic(q)
         ELSE Dispatch(q, Call("DeleteChild", EmptyString, NoFile, q.key.value,
                               NoOptions, FALSE))

\* delete up to its call: the check of the two inputs, then Delete with
\* path[1:] when no key is attached, else DeleteChild with key.(string).
delete(q) ==
    IF q.param = EmptyString /\ ~q.key.exists THEN Return(q, "ErrUnprocessable")
    ELSE IF ~q.key.exists
    THEN IF ~SliceInRange(q.param, 1, Len(q.param)) THEN Panic(q)
         ELSE Dispatch(q, Call("Delete", deletePath(q.param), NoFile, "",
                               NoOptions, FALSE))
    ELSE IF ~q.key.isString THEN Panic(q)
         ELSE Dispatch(q, Call("DeleteChild", EmptyString, NoFile, q.key.value,
                               NoOptions, FALSE))

\* deleteReturn with a second try of the call after an error.
deleteReturnRetry(q, err) ==
    IF err # "nil" /\ Len(q.calls) < 2 THEN Dispatch(q, PendingCall(q))
    ELSE IF err # "nil" THEN Return(q, err)
    ELSE Respond(q, String(q.resp, StatusOK, "Ok"))

\* delete after Delete or DeleteChild returned err
deleteReturn(q, err) ==
    IF err # "nil" THEN Return(q, err)
    ELSE Respond(q, String(q.resp, StatusOK, "Ok"))

(***************************************************************************)
(* info, exist                                                             *)
(***************************************************************************)

\* c.String(http.StatusBadRequest, ...); return nil
badRequest(q) ==
    [q EXCEPT !.state = "Failed", !.err = "nil",
              !.resp = String(@, StatusBadRequest,
                              "Request should contains path string")]

\* h.processor.GetStorageByFileExist(path)
getStorageByFileExist(q) ==
    Dispatch(q, Call("GetStorageByFileExist", q.query, NoFile, "", NoOptions,
                     FALSE))

\* info without its check of the query.
infoUnchecked(q) == getStorageByFileExist(q)

\* info and exist up to their call
info(q) == IF q.query = EmptyString THEN badRequest(q) ELSE getStorageByFileExist(q)

exist(q) == IF q.query = EmptyString THEN badRequest(q) ELSE getStorageByFileExist(q)

\* infoLookedUp without the return on a nil storage.
infoLookedUpAnyway(q, storage) ==
    getSizes(q, [NoFile EXCEPT !.Filepath = q.query, !.Storage = storage])

\* info after GetStorageByFileExist returned storage
infoLookedUp(q, storage) ==
    IF storage = "nil" THEN Return(q, "ErrFileNotExists")
    ELSE getSizes(q, [NoFile EXCEPT !.Filepath = q.query, !.Storage = storage])

\* info after GetSizes returned (imgSizes, err)
infoSized(q, out) ==
    IF out.err # "nil" THEN Return(q, out.err)
    ELSE Respond(q, JSON(q.resp, StatusOK,
            [names |-> {"filename", "path", "url", "width", "height", "bytes"},
             filename |-> Filename(q.file), path |-> Path(q.file),
             url |-> URL(q.file), key |-> "", sizes |-> out.sizes]))

\* exist after GetStorageByFileExist returned storage: nil is returned and
\* nothing is written.
existReturn(q, storage) ==
    IF storage = "nil" THEN Return(q, "ErrFileNotExists")
    ELSE Respond(q, q.resp)

(***************************************************************************)
(* The status of a returned error (package failure)                        *)
(***************************************************************************)

StatusUnprocessableEntity == 422

\* The status the error handler answers a returned error with; NoStatus
\* where the mapping is not fixed.
ErrorStatus(err) ==
    CASE err = "ErrFileNotExists" -> StatusNotFound
      [] err = "ErrUnprocessable" -> StatusUnprocessableEntity
      [] OTHER -> NoStatus

\* The status the client sees: the one the handler wrote, else the one of
\* the error it returned.
TransportStatus(q) ==
    IF q.resp.status # NoStatus THEN q.resp.status ELSE ErrorStatus(q.err)

(***************************************************************************)
(* The steps of the requests                                               *)
(***************************************************************************)

\* Step with the installed path kept where every request reads it (on the
\* processor, not on the request's own context).
StepSharedOptions(r, q) ==
    /\ req' = [i \in DOMAIN req |->
                IF i = r THEN q ELSE [req[i] EXCEPT !.secured = q.secured]]
    /\ UNCHANGED SecurePathKey

Step(r, q) == /\ req' = [req EXCEPT ![r] = q]
              /\ UNCHANGED SecurePathKey

\* The processor answers request r's pending call with error err ("nil"
\* for none) and the handler goes on to q.
Answer(r, err, q) == Step(r, [q EXCEPT !.answer = err])

SecureDisplay(r) ==
    /\ req[r].route = "secureDisplay" /\ req[r].state = "Unauthenticated"
    /\ Step(r, securePath(req[r], SecurePathKey))

SecureGet(r) ==
    /\ req[r].route = "secureGet" /\ req[r].state = "Unauthenticated"
    /\ Step(r, securePath(req[r], SecurePathKey))

SecureRedirect(r) ==
    /\ req[r].route = "secureRedirect" /\ req[r].state = "Unauthenticated"
    /\ Step(r, securePath(req[r], SecurePathKey))

Display(r) ==
    /\ req[r].route \in DisplayRoutes /\ Ready(req[r])
    /\ Step(r, processContext(req[r], displayOptions))

DisplayReturn(r) ==
    /\ req[r].route \in DisplayRoutes /\ req[r].pending = "ProcessContext"
    /\ \E out \in ProcessContextOutcomes(req[r]) :
        \E order \in RangeOrders(out.file.Headers) :
            Answer(r, out.err, [displayReturn(req[r], out, order)
                                    EXCEPT !.returned = out.file])

Get(r) ==
    /\ req[r].route \in GetRoutes /\ Ready(req[r])
    /\ Step(r, processContext(req[r], getOptions))

GetProcessed(r) ==
    /\ req[r].route \in GetRoutes /\ req[r].pending = "ProcessContext"
    /\ \E out \in ProcessContextOutcomes(req[r]) :
        Answer(r, out.err, [getProcessed(req[r], out)
                                EXCEPT !.returned = out.file])

GetSized(r) ==
    /\ req[r].route \in GetRoutes /\ req[r].pending = "GetSizes"
    /\ \E out \in GetSizesOutcomes(req[r]) :
        Answer(r, out.err, getSized(req[r], out))

RedirectCall(r) ==
    /\ req[r].route \in RedirectRoutes /\ Ready(req[r])
    /\ Step(r, processContext(req[r], redirectOptions))

RedirectReturn(r) ==
    /\ req[r].route \in RedirectRoutes /\ req[r].pending = "ProcessContext"
    /\ \E out \in ProcessContextOutcomes(req[r]) :
        Answer(r, out.err, [redirectReturn(req[r], out)
                                EXCEPT !.returned = out.file])

Upload(r) ==
    /\ req[r].route = "upload" /\ req[r].state = "Unauthenticated"
    /\ Step(r, upload(req[r]))

UploadReturn(r) ==
    /\ req[r].route = "upload" /\ req[r].pending = "Upload"
    /\ \E out \in UploadOutcomes :
        Answer(r, out.err, uploadReturn(req[r], out))

Delete(r) ==
    /\ req[r].route = "delete" /\ req[r].state = "Unauthenticated"
    /\ Step(r, delete(req[r]))

DeleteReturn(r) ==
    /\ req[r].route = "delete" /\ req[r].pending \in {"Delete", "DeleteChild"}
    /\ \E err \in DeleteOutcomes :
        Answer(r, err, deleteReturn(req[r], err))

Info(r) ==
    /\ req[r].route = "info" /\ req[r].state = "Unauthenticated"
    /\ Step(r, info(req[r]))

InfoLookedUp(r) ==
    /\ req[r].route = "info" /\ req[r].pending = "GetStorageByFileExist"
    /\ \E storage \in StorageOutcomes :
        Answer(r, "nil", [infoLookedUp(req[r], storage)
                            EXCEPT !.storage = storage])

InfoSized(r) ==
    /\ req[r].route = "info" /\ req[r].pending = "GetSizes"
    /\ \E out \in GetSizesOutcomes(req[r]) :
        Answer(r, out.err, infoSized(req[r], out))

Exist(r) ==
    /\ req[r].route = "exist" /\ req[r].state = "Unauthenticated"
    /\ Step(r, exist(req[r]))

ExistReturn(r) ==
    /\ req[r].route = "exist" /\ req[r].pending = "GetStorageByFileExist"
    /\ \E storage \in StorageOutcomes :
        Answer(r, "nil", [existReturn(req[r], storage)
                            EXCEPT !.storage = storage])

\* panic(errors.WithStack(fmt.Errorf("KO")))
InternalError(r) ==
    /\ req[r].route = "internalError" /\ req[r].state = "Unauthenticated"
    /\ Step(r, Panic(req[r]))

\* The transport signals a timeout or the client's going away while the
\* request is being served.  Only display, get and redirect hand the
\* request's context to the processor; no other handler can come to see
\* the signal, and it is left out for them.
Cancel(r) ==
    /\ req[r].route \in DisplayRoutes \cup GetRoutes \cup RedirectRoutes
    /\ req[r].state \notin Terminal /\ req[r].cancel = "none"
    /\ Step(r, [req[r] EXCEPT !.cancel =
                    IF req[r].pending = "none" THEN "idle" ELSE req[r].pending])

(***************************************************************************)
(* The specification                                                       *)
(***************************************************************************)

Init ==
    /\ SecurePathKey \in KeyMaterials
    /\ req \in [1..NumRequests -> Requests]

Next ==
    \/ \E r \in DOMAIN req : SecureDisplay(r)
    \/ \E r \in DOMAIN req : SecureGet(r)
    \/ \E r \in DOMAIN req : SecureRedirect(r)
    \/ \E r \in DOMAIN req : Display(r)
    \/ \E r \in DOMAIN req : DisplayReturn(r)
    \/ \E r \in DOMAIN req : Get(r)
    \/ \E r \in DOMAIN req : GetProcessed(r)
    \/ \E r \in DOMAIN req : GetSized(r)
    \/ \E r \in DOMAIN req : RedirectCall(r)
    \/ \E r \in DOMAIN req : RedirectReturn(r)
    \/ \E r \in DOMAIN req : Upload(r)
    \/ \E r \in DOMAIN req : UploadReturn(r)
    \/ \E r \in DOMAIN req : Delete(r)
    \/ \E r \in DOMAIN req : DeleteReturn(r)
    \/ \E r \in DOMAIN req : Info(r)
    \/ \E r \in DOMAIN req : InfoLookedUp(r)
    \/ \E r \in DOMAIN req : InfoSized(r)
    \/ \E r \in DOMAIN req : Exist(r)
    \/ \E r \in DOMAIN req : ExistReturn(r)
    \/ \E r \in DOMAIN req : InternalError(r)
    \/ \E r \in DOMAIN req : Cancel(r)

Spec == Init /\ [][Next]_vars

(***************************************************************************)
(* The same path asked for twice: through display, and through             *)
(* secureDisplay with the path's token under the secret the process holds. *)
(***************************************************************************)

InitPair ==
    /\ SecurePathKey \in IssuingKeys
    /\ \E p \in Paths :
        req = << [Plain("display") EXCEPT !.bag = "ok", !.path = p],
                 [Plain("secureDisplay") EXCEPT
                    !.bag = "ok", !.path = Token(p, SecurePathKey)] >>

NextPair ==
    \/ \E r \in DOMAIN req : SecureDisplay(r)
    \/ \E r \in DOMAIN req : Display(r)
    \/ \E r \in DOMAIN req : DisplayReturn(r)
    \/ \E r \in DOMAIN req : Cancel(r)

SpecPair == InitPair /\ [][NextPair]_vars

(***************************************************************************)
(* Two requests in flight at once on the display, get and redirect routes, *)
(* secured or not, each with a path or a token of its own.                 *)
(***************************************************************************)

\* The requests of these routes that carry a string path or token.
InFlightRequests ==
    UnsecuredRequests \cup {q \in SecuredRequests : q.bag = "ok"}

InitConcurrent ==
    /\ SecurePathKey \in IssuingKeys
    /\ \E q1 \in InFlightRequests, q2 \in InFlightRequests : req = <<q1, q2>>

NextConcurrent ==
    \/ \E r \in DOMAIN req : SecureDisplay(r)
    \/ \E r \in DOMAIN req : SecureGet(r)
    \/ \E r \in DOMAIN req : SecureRedirect(r)
    \/ \E r \in DOMAIN req : Display(r)
    \/ \E r \in DOMAIN req : DisplayReturn(r)
    \/ \E r \in DOMAIN req : Get(r)
    \/ \E r \in DOMAIN req : GetProcessed(r)
    \/ \E r \in DOMAIN req : GetSized(r)
    \/ \E r \in DOMAIN req : RedirectCall(r)
    \/ \E r \in DOMAIN req : RedirectReturn(r)
    \/ \E r \in DOMAIN req : Cancel(r)

SpecConcurrent == InitConcurrent /\ [][NextConcurrent]_vars

(***************************************************************************)
(* The general specification with its scheduling: a handler runs on a      *)
(* goroutine of its own and goes on until it returns, and every call to    *)
(* the processor returns.  The transport's cancellation may never come.    *)
(***************************************************************************)

\* The steps of request r's handler and the processor's answers to it.
Progress(r) ==
    \/ SecureDisplay(r) \/ SecureGet(r) \/ SecureRedirect(r)
    \/ Display(r) \/ DisplayReturn(r)
    \/ Get(r) \/ GetProcessed(r) \/ GetSized(r)
    \/ RedirectCall(r) \/ RedirectReturn(r)
    \/ Upload(r) \/ UploadReturn(r)
    \/ Delete(r) \/ DeleteReturn(r)
    \/ Info(r) \/ InfoLookedUp(r) \/ InfoSized(r)
    \/ Exist(r) \/ ExistReturn(r)
    \/ InternalError(r)

\* Some handler that can go on does.  A handler takes a bounded number of
\* steps, so no request waits for ever behind the others.
Fairness == WF_vars(\E r \in DOMAIN req : Progress(r))

SpecLive == Init /\ [][Next]_vars /\ Fairness

(***************************************************************************)
(* Properties                                                              *)
(***************************************************************************)

\* The secret can be split as securePath splits it, and the request's
\* token does not decode under it.
DecodeFails(q) ==
    /\ q.bag = "ok"
    /\ SliceInRange(SecurePathKey, 0, BlockSize)
    /\ SliceInRange(SecurePathKey, BlockSize, Len(SecurePathKey))
    /\ Decode(q.path, Slice(SecurePathKey, 0, BlockSize),
              Slice(SecurePathKey, BlockSize, Len(SecurePathKey))).err
          \in DecodeErrors

\* C1: on a secured route, a request whose token fails to decode makes no
\* call to the processor (ProcessContext, GetSizes, SetSecuredOptions): its
\* list of calls stays empty, it is blocked in no call, and it never gets
\* past securePath into display, get or redirect.
NoFacadeCallOnDecodeFailure ==
    \A r \in DOMAIN req :
        (req[r].route \in SecuredRoutes /\ DecodeFails(req[r]))
            => /\ req[r].calls = << >>
               /\ req[r].pending = "none"
               /\ req[r].state \in {"Unauthenticated", "Failed"}

\* A secured request that securePath has turned away for its token.
DecodeFailureSeen ==
    \E r \in DOMAIN req :
        /\ req[r].route \in SecuredRoutes /\ DecodeFails(req[r])
        /\ req[r].state = "Failed" /\ req[r].err \in DecodeErrors

\* The response of a failed decode: 404, no header, no body.
UniformNotFound ==
    [status |-> StatusNotFound, headers |-> NoHeaders, body |-> NoBody]

\* C2: every secured request whose token failed to decode has the same
\* response whatever the kind of the decode error: status 404 with no
\* header and no body, so that any two such requests show the same outcome.
DecodeFailureUniform ==
    \A r1, r2 \in DOMAIN req :
        ( /\ req[r1].route \in SecuredRoutes /\ DecodeFails(req[r1])
          /\ req[r1].state = "Failed"
          /\ req[r2].route \in SecuredRoutes /\ DecodeFails(req[r2])
          /\ req[r2].state = "Failed" )
            => /\ req[r1].resp = UniformNotFound
               /\ req[r1].resp = req[r2].resp
               /\ TransportStatus(req[r1]) = StatusNotFound

\* A secured request turned away for a padding failure.
PaddingFailureSeen ==
    \E r \in DOMAIN req :
        /\ req[r].route \in SecuredRoutes
        /\ req[r].state = "Failed" /\ req[r].err = "PaddingInvalid"

\* The call Delete(path[1:]) of a delete request.
DeleteByPath(q) ==
    Call("Delete", Tail(q.param), NoFile, "", NoOptions, FALSE)

\* The call DeleteChild(key) of a delete request.
DeleteByKey(q) ==
    Call("DeleteChild", EmptyString, NoFile, q.key.value, NoOptions, FALSE)

\* C3 as stated: when a delete request with a non-empty path, key attached
\* or not, calls the processor, it calls Delete with the path less its
\* leading separator, and DeleteChild is called only when the path is
\* empty.
DeleteByPathWheneverPath ==
    \A r \in DOMAIN req :
        (req[r].route = "delete" /\ req[r].calls # << >>)
            => /\ req[r].param # EmptyString
                    => req[r].calls = <<DeleteByPath(req[r])>>
               /\ \A i \in DOMAIN req[r].calls :
                    req[r].calls[i].op = "DeleteChild"
                        => req[r].param = EmptyString

\* C3 amended: a delete request with a non-empty path and no key attached
\* calls Delete with the path less its leading separator, and never
\* DeleteChild; a delete request with a string key attached calls
\* DeleteChild with that key, path or no path, and never Delete;
\* DeleteChild is called for no other request.
DeleteByPathUnlessKey ==
    \A r \in DOMAIN req :
        (req[r].route = "delete" /\ req[r].state # "Unauthenticated")
            => /\ (req[r].param # EmptyString /\ ~req[r].key.exists)
                    => req[r].calls = <<DeleteByPath(req[r])>>
               /\ (req[r].key.exists /\ req[r].key.isString)
                    => req[r].calls = <<DeleteByKey(req[r])>>
               /\ \A i \in DOMAIN req[r].calls :
                    req[r].calls[i].op = "DeleteChild"
                        => req[r].key.exists /\ req[r].key.isString

\* A delete request with a path and no key, blocked in Delete.
DeleteByPathSeen ==
    \E r \in DOMAIN req :
        /\ req[r].route = "delete" /\ req[r].param # EmptyString
        /\ ~req[r].key.exists /\ req[r].pending = "Delete"

\* C4: a delete request with an empty path and no key attached ends with
\* the error ErrUnprocessable, answered with status 422; it calls neither
\* Delete nor DeleteChild and writes no response of its own.
DeleteWithoutTargetUnprocessable ==
    \A r \in DOMAIN req :
        ( /\ req[r].route = "delete" /\ req[r].state # "Unauthenticated"
          /\ req[r].param = EmptyString /\ ~req[r].key.exists )
            => /\ req[r].state = "Failed"
               /\ req[r].err = "ErrUnprocessable"
               /\ req[r].calls = << >>
               /\ req[r].resp = NoResponse
               /\ TransportStatus(req[r]) = StatusUnprocessableEntity

\* A delete request with neither path nor key, after delete returned.
DeleteWithoutTargetSeen ==
    \E r \in DOMAIN req :
        /\ req[r].route = "delete" /\ req[r].state = "Failed"
        /\ req[r].param = EmptyString /\ ~req[r].key.exists

\* C5: an info or exist request with an empty path query is answered with
\* status 400 and calls the processor not at all (neither
\* GetStorageByFileExist nor GetSizes).
EmptyQueryBadRequest ==
    \A r \in DOMAIN req :
        ( /\ req[r].route \in {"info", "exist"}
          /\ req[r].state # "Unauthenticated"
          /\ req[r].query = EmptyString )
            => /\ req[r].resp.status = StatusBadRequest
               /\ TransportStatus(req[r]) = StatusBadRequest
               /\ req[r].calls = << >>
               /\ req[r].pending = "none"
               /\ req[r].state = "Failed"

\* An exist request with an empty query, answered.
EmptyQuerySeen ==
    \E r \in DOMAIN req :
        /\ req[r].route = "exist" /\ req[r].query = EmptyString
        /\ req[r].resp.status = StatusBadRequest

\* C6: every successful display response, secured or not, carries
\* Cache-Control: must-revalidate, whatever headers the file declares, a
\* Cache-Control entry of its own included.
DisplayForcesRevalidation ==
    \A r \in DOMAIN req :
        (req[r].route \in DisplayRoutes /\ req[r].state = "Responded")
            => /\ "Cache-Control" \in DOMAIN req[r].resp.headers
               /\ req[r].resp.headers["Cache-Control"] = "must-revalidate"
               /\ req[r].resp.status = StatusOK

\* A display response for a file that declares a Cache-Control of its own.
DisplayOverCacheControlSeen ==
    \E r \in DOMAIN req :
        /\ req[r].route \in DisplayRoutes /\ req[r].state = "Responded"
        /\ \E k \in DOMAIN req[r].file.Headers :
            /\ CanonicalKey(k) = "Cache-Control"
            /\ req[r].file.Headers[k] # "must-revalidate"

\* C7 as stated: on a successful display response every header the file
\* declares is in the response under the declared name with the declared
\* value, the body is the file's content and the content type is the
\* file's.
DisplayCopiesHeadersVerbatim ==
    \A r \in DOMAIN req :
        (req[r].route \in DisplayRoutes /\ req[r].state = "Responded")
            => /\ \A k \in DOMAIN req[r].file.Headers :
                    /\ k \in DOMAIN req[r].resp.headers
                    /\ req[r].resp.headers[k] = req[r].file.Headers[k]
               /\ req[r].resp.body.kind = "data"
               /\ req[r].resp.body.content = Content(req[r].file)
               /\ req[r].resp.headers["Content-Type"] = req[r].file.ContentType

\* No other declared name has k's canonical form.
Unshadowed(file, k) ==
    \A k2 \in DOMAIN file.Headers :
        CanonicalKey(k2) = CanonicalKey(k) => k2 = k

\* C7 amended: on a successful display response every header the file
\* declares with a non-empty value is in the response under the canonical
\* form of its name with the declared value, unless the name is
\* Cache-Control or the file declares a second spelling of the name; a
\* header declared with an empty value is not copied; the body is the
\* file's content; the content type is the file's unless the copied headers
\* hold a Content-Type.
DisplayCopiesHeadersCanonically ==
    \A r \in DOMAIN req :
        (req[r].route \in DisplayRoutes /\ req[r].state = "Responded")
            => /\ \A k \in DOMAIN req[r].file.Headers :
                    ( /\ CanonicalKey(k) # "Cache-Control"
                      /\ Unshadowed(req[r].file, k) )
                        => IF req[r].file.Headers[k] # ""
                           THEN /\ CanonicalKey(k) \in DOMAIN req[r].resp.headers
                                /\ req[r].resp.headers[CanonicalKey(k)]
                                        = req[r].file.Headers[k]
                           ELSE CanonicalKey(k) \in DOMAIN req[r].resp.headers
                                    => CanonicalKey(k) = "Content-Type"
               /\ req[r].resp.body.kind = "data"
               /\ req[r].resp.body.content = Content(req[r].file)
               /\ (\A k \in DOMAIN req[r].file.Headers :
                        CanonicalKey(k) = "Content-Type"
                            => req[r].file.Headers[k] = "")
                    => req[r].resp.headers["Content-Type"]
                            = req[r].file.ContentType

\* A display response for a file that declares a header other than
\* Cache-Control, with a value.
DisplayCopiedHeaderSeen ==
    \E r \in DOMAIN req :
        /\ req[r].route \in DisplayRoutes /\ req[r].state = "Responded"
        /\ \E k \in DOMAIN req[r].file.Headers :
            /\ CanonicalKey(k) # "Cache-Control"
            /\ Unshadowed(req[r].file, k)
            /\ req[r].file.Headers[k] # ""

\* The options each handler passes to ProcessContext.
OptionsOf(route) ==
    IF route \in DisplayRoutes THEN [async |-> TRUE, load |-> TRUE]
    ELSE [async |-> FALSE, load |-> FALSE]

\* C8: the options of every ProcessContext call are those of the request's
\* intent and depend on nothing else: async and load both true for display,
\* both false for get and redirect, and the same for a secured route as for
\* the route it wraps.
OptionsFollowIntent ==
    \A r \in DOMAIN req :
        \A i \in DOMAIN req[r].calls :
            req[r].calls[i].op = "ProcessContext"
                => /\ req[r].route \in
                        DisplayRoutes \cup GetRoutes \cup RedirectRoutes
                   /\ req[r].calls[i].opts = OptionsOf(req[r].route)

\* A secured get blocked in ProcessContext.
SecureGetDispatchedSeen ==
    \E r \in DOMAIN req :
        /\ req[r].route = "secureGet" /\ req[r].pending = "ProcessContext"

\* The processor gave both requests the same answer, and display's range
\* over the headers ran in the same order.
SameAnswer(u, s) ==
    u.answer = s.answer /\ u.file = s.file /\ u.order = s.order

\* C9: a secureDisplay request with the token of path p under the secret
\* the process holds has the outcome of a display request with p itself.
\* It neither panics nor fails to decode; what securePath adds is the log
\* entry for p, p installed on the request and the SetSecuredOptions call;
\* its ProcessContext call is display's call, with the same path, options
\* and context; and once both requests have ended on the same answer of
\* the processor, they have the same state, error and response.
SecureDisplayMatchesDisplay ==
    LET u == req[1]
        s == req[2]
    IN  /\ s.state # "Panicked" /\ s.err \notin DecodeErrors
        /\ s.state # "Unauthenticated"
            => /\ s.secured = [set |-> TRUE, path |-> u.path]
               /\ s.log = <<u.path>>
               /\ s.calls[1] = Call("SetSecuredOptions", u.path, NoFile, "",
                                    NoOptions, TRUE)
        /\ (u.calls # << >> /\ Len(s.calls) > 1)
            => s.calls = <<s.calls[1]>> \o u.calls
        /\ \A i \in DOMAIN s.calls :
            s.calls[i].op = "ProcessContext" => s.calls[i].path = u.path
        /\ (u.state \in Terminal /\ s.state \in Terminal /\ SameAnswer(u, s))
            => /\ u.state = s.state
               /\ u.err = s.err
               /\ u.resp = s.resp

\* Both requests answered with the same file, one that declares headers.
PairRespondedSeen ==
    /\ req[1].state = "Responded" /\ req[2].state = "Responded"
    /\ SameAnswer(req[1], req[2])
    /\ req[2].file.Headers # NoHeaders

\* C10 as stated: a display, get or redirect request that the transport
\* cancelled while the handler was blocked in a call to the processor ends
\* with the cancellation error, which is no decode, validation or domain
\* error, and writes no success response.
CancellationEndsRequest ==
    \A r \in DOMAIN req :
        ( /\ req[r].route \in DisplayRoutes \cup GetRoutes \cup RedirectRoutes
          /\ req[r].cancel \notin {"none", "idle"}
          /\ req[r].state \in Terminal )
            => /\ req[r].state = "Failed"
               /\ req[r].err = Canceled
               /\ ~IsSuccessResponse(req[r].resp)

\* The states in which a request has ended with an error of any kind: a
\* returned error or an error status written (Failed), or a panic (the
\* fatal kind).
Failure == {"Failed", "Panicked"}

\* One step of request r keeps the order Unauthenticated, Authenticated,
\* Dispatched, Responded: Authenticated is entered from Unauthenticated and
\* on a secured route only, Dispatched from Authenticated (on an unsecured
\* route, where Authenticated is entered trivially, from Unauthenticated)
\* or from Dispatched, Responded from Dispatched; a request that has ended
\* changes no more; and a response is written once, on the step that ends
\* the request.
OrderKept(r) ==
    /\ req[r].state \in Terminal => req'[r] = req[r]
    /\ req'[r].state = "Unauthenticated" => req[r].state = "Unauthenticated"
    /\ (req'[r].state = "Authenticated" /\ req[r].state # "Authenticated")
        => req[r].state = "Unauthenticated" /\ req[r].route \in SecuredRoutes
    /\ (req'[r].state = "Dispatched" /\ req[r].state # "Dispatched")
        => Ready(req[r])
    /\ (req'[r].state = "Responded" /\ req[r].state # "Responded")
        => req[r].state = "Dispatched"
    /\ req'[r].resp # req[r].resp
        => req[r].resp = NoResponse /\ req'[r].state \in Terminal

RequestOrderKept == [][\A r \in DOMAIN req : OrderKept(r)]_vars

\* Every request ends.
RequestsTerminate ==
    <>(\A r \in DOMAIN req : req[r].state \in Terminal)

\* A request that has ended with an error has no success response.
FailedWritesNoSuccess ==
    \A r \in DOMAIN req :
        req[r].state \in Failure => ~IsSuccessResponse(req[r].resp)

\* A request that has ended Responded has a success response.
RespondedWroteSuccess ==
    \A r \in DOMAIN req :
        req[r].state = "Responded" => IsSuccessResponse(req[r].resp)

\* A request that has ended Responded has a success response, or it is an
\* exist request and has no response at all.
RespondedWroteSuccessUnlessExist ==
    \A r \in DOMAIN req :
        req[r].state = "Responded"
            => IF req[r].route = "exist" THEN req[r].resp = NoResponse
               ELSE IsSuccessResponse(req[r].resp)

\* C11 as stated: every request keeps the order Unauthenticated,
\* Authenticated, Dispatched, Responded; given that every call to the
\* processor returns, it ends, in Responded or with an error; once it has
\* ended with an error it has no success response; and a request that ends
\* Responded has written one success response (a 200 or the 301).
RequestLifecycleAsStated ==
    /\ RequestOrderKept
    /\ RequestsTerminate
    /\ [](FailedWritesNoSuccess /\ RespondedWroteSuccess)

\* C11 amended: every request keeps the order Unauthenticated,
\* Authenticated, Dispatched, Responded; given that every call to the
\* processor returns, it ends, in Responded or with an error; once it has
\* ended with an error it has no success response; a request that ends
\* Responded has written one success response, except that an exist request
\* ends Responded with nothing written by its handler.
RequestLifecycle ==
    /\ RequestOrderKept
    /\ RequestsTerminate
    /\ [](FailedWritesNoSuccess /\ RespondedWroteSuccessUnlessExist)

\* An exist request whose file was found, after exist returned.
ExistRespondedSeen ==
    \E r \in DOMAIN req :
        /\ req[r].route = "exist" /\ req[r].state = "Responded"
        /\ req[r].calls # << >>

\* The operations of the processor that the handlers await an outcome of.
FacadeOps ==
    {"ProcessContext", "GetSizes", "Upload", "Delete", "DeleteChild",
     "GetStorageByFileExist"}

\* C12: within one request each operation of the processor
\* (ProcessContext, GetSizes, Upload, Delete, DeleteChild,
\* GetStorageByFileExist) is called at most once, whatever it answers, and
\* the handler goes on with that one answer: after an error answer the
\* request has ended with that very error, is blocked in no call, and has
\* written no response.
NoFacadeRetry ==
    \A r \in DOMAIN req :
        /\ \A i, j \in DOMAIN req[r].calls :
            req[r].calls[i].op = req[r].calls[j].op => i = j
        /\ req[r].pending # "none" => req[r].pending \in FacadeOps
        /\ req[r].answer \notin {"none", "nil"}
            => /\ req[r].state = "Failed"
               /\ req[r].err = req[r].answer
               /\ req[r].pending = "none"
               /\ req[r].resp = NoResponse

\* A get request that ended on an error answer of GetSizes, its second
\* call.
SecondCallFailedSeen ==
    \E r \in DOMAIN req :
        /\ req[r].route \in GetRoutes /\ req[r].state = "Failed"
        /\ req[r].answer \in DomainErrors
        /\ PendingCall(req[r]).op = "GetSizes"

\* C13: an upload request calls Upload only after its multipart payload
\* was bound; when the payload does not bind, the request ends Failed with
\* the binding's errors, Upload is never called and no response is
\* written.
UploadParsesFirst ==
    \A r \in DOMAIN req :
        req[r].route = "upload"
            => /\ req[r].calls # << >> => req[r].payload = "valid"
               /\ (req[r].payload # "valid" /\ req[r].state # "Unauthenticated")
                    => /\ req[r].state = "Failed"
                       /\ req[r].err = "binding.Errors"
                       /\ req[r].calls = << >>
                       /\ req[r].pending = "none"
                       /\ req[r].resp = NoResponse

\* An upload request whose payload did not bind, after upload returned.
UploadParseFailureSeen ==
    \E r \in DOMAIN req :
        /\ req[r].route = "upload" /\ req[r].payload = "invalid"
        /\ req[r].state = "Failed"

\* What Decode answers for the request's token under the secret as
\* securePath splits it (defined when the secret is a block long or more).
Decoded(q) ==
    Decode(q.path, Slice(SecurePathKey, 0, BlockSize),
           Slice(SecurePathKey, BlockSize, Len(SecurePathKey)))

\* securePath gets as far as Decode, and the token decodes.
DecodeSucceeds(q) ==
    /\ q.bag = "ok"
    /\ SliceInRange(SecurePathKey, 0, BlockSize)
    /\ SliceInRange(SecurePathKey, BlockSize, Len(SecurePathKey))
    /\ Decoded(q).err = "nil"

\* C14: a secured request has one log entry, the decoded path, exactly
\* when its token decoded; the entry is logged before any call to the
\* processor (SetSecuredOptions and ProcessContext included); the logged
\* path is the one installed on the request and the one ProcessContext is
\* called for; a request whose token did not decode, and a request on an
\* unsecured route, has no log entry.
AuditLogOnDecodeSuccess ==
    \A r \in DOMAIN req :
        IF req[r].route \in SecuredRoutes /\ req[r].state # "Unauthenticated"
              /\ DecodeSucceeds(req[r])
        THEN /\ req[r].log = <<Decoded(req[r]).path>>
             /\ req[r].secured = [set |-> TRUE, path |-> req[r].log[1]]
             /\ req[r].trace[1] = "Logger.Info"
             /\ \A i \in DOMAIN req[r].trace :
                    req[r].trace[i] = "Logger.Info" => i = 1
             /\ \A i \in DOMAIN req[r].calls :
                    req[r].calls[i].op \in {"SetSecuredOptions", "ProcessContext"}
                        => req[r].calls[i].path = req[r].log[1]
        ELSE /\ req[r].log = << >>
             /\ \A i \in DOMAIN req[r].trace : req[r].trace[i] # "Logger.Info"
             /\ ~req[r].secured.set

\* A secured request blocked in ProcessContext, its path logged.
AuditLogSeen ==
    \E r \in DOMAIN req :
        /\ req[r].route \in SecuredRoutes /\ req[r].pending = "ProcessContext"
        /\ req[r].log # << >>

\* C15 as stated: whatever secret the process holds, once securePath has
\* split it for a request the split has not failed, the key segment is the
\* secret's first block, the IV segment is the rest, each segment is one
\* block long, and the two together are the whole secret.
KeySplitExact ==
    \A r \in DOMAIN req :
        ( /\ req[r].route \in SecuredRoutes /\ req[r].bag = "ok"
          /\ req[r].state # "Unauthenticated" )
            => /\ req[r].state # "Panicked"
               /\ SliceInRange(SecurePathKey, 0, BlockSize)
               /\ SliceInRange(SecurePathKey, BlockSize, Len(SecurePathKey))
               /\ Len(Slice(SecurePathKey, 0, BlockSize)) = BlockSize
               /\ Len(Slice(SecurePathKey, BlockSize, Len(SecurePathKey)))
                    = BlockSize
               /\ Slice(SecurePathKey, 0, BlockSize)
                    \o Slice(SecurePathKey, BlockSize, Len(SecurePathKey))
                        = SecurePathKey

\* C17 as stated: under a secret of two blocks, a secured request, whatever
\* its parameter bag holds, never ends in a panic: once securePath has run
\* it is Authenticated (and goes on), or Failed with the uniform 404.
SecurePathNeverPanics ==
    \A r \in DOMAIN req :
        ( /\ req[r].route \in SecuredRoutes
          /\ Len(SecurePathKey) = 2 * BlockSize
          /\ req[r].state # "Unauthenticated" )
            => /\ req[r].state # "Panicked"
               /\ req[r].calls = << >>
                    => /\ req[r].state = "Failed"
                       /\ req[r].resp = UniformNotFound

\* C18 as stated: a delete request, whatever its path and whatever key of
\* whatever type is attached, never ends in a panic and never slices an
\* empty path: once delete has run, the request has ended with
\* ErrUnprocessable, or is in or past a call of Delete or DeleteChild; and
\* with an empty path and a key attached that call is DeleteChild with the
\* key.
DeleteNeverPanics ==
    \A r \in DOMAIN req :
        (req[r].route = "delete" /\ req[r].state # "Unauthenticated")
            => /\ req[r].state # "Panicked"
               /\ \A i \in DOMAIN req[r].calls :
                    req[r].calls[i].op = "Delete"
                        => req[r].param # EmptyString
               /\ (req[r].param = EmptyString /\ req[r].key.exists)
                    => req[r].calls = <<DeleteByKey(req[r])>>
               /\ req[r].calls = << >>
                    => req[r].state = "Failed" /\ req[r].err = "ErrUnprocessable"

\* The path a request's calls are to be made for: the one its own token
\* decodes to on a secured route, else its own path parameter.
OwnPath(q) == IF q.route \in SecuredRoutes THEN Decoded(q).path ELSE q.path

\* Every call of request q is made with q's own path and the options of
\* q's own route.
CallsAreOwn(q) ==
    \A i \in DOMAIN q.calls :
        /\ q.calls[i].op \in {"ProcessContext", "SetSecuredOptions"}
            => q.calls[i].path = OwnPath(q)
        /\ q.calls[i].op = "ProcessContext"
            => q.calls[i].opts = OptionsOf(q.route)
        /\ q.calls[i].op = "GetSizes"
            => q.calls[i].file.Filepath = OwnPath(q)

\* C16: with two requests in flight on secured and unsecured routes, in
\* any interleaving of their steps, the path and the options of every call
\* to the processor are those of the calling request's own token or path
\* parameter and route, never the other request's; a step of one request
\* changes nothing of the other; and no step changes the secret.
RequestsDoNotInterfere ==
    /\ [](\A r \in DOMAIN req : CallsAreOwn(req[r]))
    /\ [][ /\ SecurePathKey' = SecurePathKey
           /\ \A r1, r2 \in DOMAIN req :
                (req'[r1] # req[r1] /\ req'[r2] # req[r2]) => r1 = r2 ]_vars

\* A secured and an unsecured request, both blocked in ProcessContext, for
\* different paths.
TwoInFlightSeen ==
    /\ req[1].route \in SecuredRoutes /\ req[2].route \in UnsecuredRoutes
    /\ req[1].pending = "ProcessContext" /\ req[2].pending = "ProcessContext"
    /\ PendingCall(req[1]).path # PendingCall(req[2]).path

\* The calls of a request to the processor's operations, SetSecuredOptions
\* left out.
FacadeCalls(q) == SelectSeq(q.calls, LAMBDA c : c.op \in FacadeOps)

\* The JSON object of get for a file and its sizes.
GetObject(file, sizes) ==
    [names |-> {"filename", "path", "url", "key", "width", "height", "bytes"},
     filename |-> Filename(file), path |-> Path(file), url |-> URL(file),
     key |-> file.Key, sizes |-> sizes]

\* C19: in get and secureGet, GetSizes is called only after ProcessContext
\* answered without error, and with the file of that answer; the 200 JSON
\* response is written only when both calls answered without error, and
\* holds that file's fields and its sizes; when either call answers with an
\* error the request ends with that very error and nothing is written.
GetSizesAfterProcess ==
    \A r \in DOMAIN req :
        req[r].route \in GetRoutes
            => LET q == req[r]
                   fc == FacadeCalls(q)
               IN  /\ Len(fc) <= 2
                   /\ Len(fc) >= 1 => fc[1].op = "ProcessContext"
                   /\ Len(fc) = 2
                        => /\ fc[2].op = "GetSizes"
                           /\ q.returned # NoFile
                           /\ fc[2].file = q.returned
                   /\ q.state = "Responded"
                        => /\ Len(fc) = 2 /\ q.answer = "nil"
                           /\ q.resp.status = StatusOK
                           /\ q.resp.body.kind = "json"
                           /\ q.resp.body.object
                                = GetObject(q.returned, SizesOf(q.returned))
                   /\ q.answer \notin {"none", "nil"}
                        => /\ q.state = "Failed" /\ q.err = q.answer
                           /\ q.resp = NoResponse
                   /\ q.resp # NoResponse
                        => q.state = "Responded" \/ q.calls = << >>

\* A get request answered with the 200 JSON response.
GetRespondedSeen ==
    \E r \in DOMAIN req :
        /\ req[r].route \in GetRoutes /\ req[r].state = "Responded"
        /\ req[r].resp.body.kind = "json"

\* C20: an info or exist request with a non-empty path query calls
\* GetStorageByFileExist once, first, with the query path; when the answer
\* is nil the request ends with ErrFileNotExists, GetSizes is not called and
\* nothing is written; an exist request never calls GetSizes.
LookupBeforeSizes ==
    \A r \in DOMAIN req :
        ( /\ req[r].route \in {"info", "exist"}
          /\ req[r].query # EmptyString
          /\ req[r].state # "Unauthenticated" )
            => LET q == req[r]
               IN  /\ q.calls[1] = Call("GetStorageByFileExist", q.query, NoFile,
                                        "", NoOptions, FALSE)
                   /\ \A i \in DOMAIN q.calls :
                        q.calls[i].op = "GetStorageByFileExist" => i = 1
                   /\ q.storage = "nil"
                        => /\ q.state = "Failed"
                           /\ q.err = "ErrFileNotExists"
                           /\ Len(q.calls) = 1
                           /\ q.resp = NoResponse
                   /\ q.route = "exist" => Len(q.calls) = 1
                   /\ q.resp.body.kind = "json"
                        => q.route = "info" /\ q.storage \notin {"none", "nil"}

\* An info request whose file no storage holds, after info returned.
LookupMissSeen ==
    \E r \in DOMAIN req :
        /\ req[r].route = "info" /\ req[r].storage = "nil"
        /\ req[r].state = "Failed"

====
